---- MODULE Spec2Model ----
(***************************************************************************)
(* The packaging manifest of rewroute (setup.py) as a state machine: the   *)
(* script opens README.md, reads it, leaves the with block, evaluates the  *)
(* keyword arguments (find_packages() among them) and calls setup().       *)
(* The environment is the file system the script runs against: the         *)
(* directory the manifest lies in, another directory, and the working      *)
(* directory of the process.                                               *)
(***************************************************************************)
EXTENDS Integers, Sequences, FiniteSets, TLC

\* ---------------------------------------------------------------- bounds

\* Longest README.md, in bytes.
MaxLen == 2

\* How many times the invoker runs the manifest over the same file system.
MaxRuns == 2

\* Largest component of a release number the version parser tries.
MaxPart == 11

\* ----------------------------------------------------------- environment

\* The directory setup.py lies in, and some other directory.
ManifestDir == "project"

OtherDir == "elsewhere"

Dirs == {ManifestDir, OtherDir}

\* Bytes a README.md is made of: CR, LF, and the two bytes of U+00E9
\* (0xC3 0xA9), each of which alone is not UTF-8.
CR == 13

LF == 10

Bytes == {CR, LF, 195, 169}

Contents == UNION {[1..n -> Bytes] : n \in 0..MaxLen}

\* A directory's README.md: absent, or present with a read permission bit
\* and its bytes.
Absent == [exists |-> FALSE, readable |-> FALSE, bytes |-> <<>>]

Files == {Absent} \cup [exists : {TRUE}, readable : BOOLEAN, bytes : Contents]

\* Python packages (directories with an __init__.py) below each directory.
PackagesIn(dir) == IF dir = ManifestDir THEN <<"rewroute">> ELSE <<>>

\* ------------------------------------------------- open(), read(), UTF-8

IsContinuation(b) == b >= 128 /\ b <= 191

\* codecs' strict UTF-8 decoder over the one- and two-byte forms, which
\* are all that Bytes can spell: the code points of bs, or failure at the
\* first byte that starts no valid form.
RECURSIVE Utf8Decode(_)
Utf8Decode(bs) ==
    IF bs = <<>> THEN [ok |-> TRUE, text |-> <<>>]
    ELSE IF bs[1] < 128
         THEN LET rest == Utf8Decode(Tail(bs))
              IN  [ok |-> rest.ok,
                   text |-> IF rest.ok THEN <<bs[1]>> \o rest.text ELSE <<>>]
    ELSE IF bs[1] >= 194 /\ bs[1] <= 223 /\ Len(bs) >= 2 /\ IsContinuation(bs[2])
         THEN LET rest == Utf8Decode(Tail(Tail(bs)))
                  cp   == (bs[1] - 192) * 64 + (bs[2] - 128)
              IN  [ok |-> rest.ok,
                   text |-> IF rest.ok THEN <<cp>> \o rest.text ELSE <<>>]
    ELSE [ok |-> FALSE, text |-> <<>>]

\* Text mode with newline=None: "\r\n" and a lone "\r" are read as "\n".
RECURSIVE UniversalNewlines(_)
UniversalNewlines(t) ==
    IF t = <<>> THEN <<>>
    ELSE IF t[1] = CR /\ Len(t) >= 2 /\ t[2] = LF
         THEN <<LF>> \o UniversalNewlines(Tail(Tail(t)))
    ELSE IF t[1] = CR THEN <<LF>> \o UniversalNewlines(Tail(t))
    ELSE <<t[1]>> \o UniversalNewlines(Tail(t))

\* readline(): the text up to and including the first "\n".
RECURSIVE FirstLine(_)
FirstLine(t) ==
    IF t = <<>> THEN <<>>
    ELSE IF t[1] = LF THEN <<LF>>
    ELSE <<t[1]>> \o FirstLine(Tail(t))

\* Variant: fh.readline() in place of fh.read().
Mut_FhRead(bs) ==
    LET d == Utf8Decode(bs)
    IN  [ok |-> d.ok, text |-> FirstLine(UniversalNewlines(d.text))]

\* fh.read() on a handle opened with encoding="utf-8": the whole file,
\* decoded, or UnicodeDecodeError.
FhRead(bs) ==
    LET d == Utf8Decode(bs)
    IN  [ok |-> d.ok, text |-> UniversalNewlines(d.text)]

\* Variant: the file opened for writing.
Mut_OpenMode == "w"

\* The mode the script opens README.md in.
OpenMode == "r"

\* open(name, mode) by the operating system on the file f that name
\* resolves to: the error raised ("none" when the handle is returned), and
\* the file afterwards (mode "w" creates or truncates, mode "r" leaves f).
OsOpen(f, mode) ==
    IF mode = "r"
    THEN [err  |-> IF ~f.exists THEN "FileNotFoundError"
                   ELSE IF ~f.readable THEN "PermissionError"
                   ELSE "none",
          file |-> f]
    ELSE [err  |-> IF f.exists /\ ~f.readable THEN "PermissionError" ELSE "none",
          file |-> IF f.exists /\ ~f.readable THEN f
                   ELSE [exists |-> TRUE, readable |-> TRUE, bytes |-> <<>>]]

\* -------------------------------------------------- the arguments of setup()

classifiers ==
    << "Development Status :: 3 - Alpha",
       "Intended Audience :: Developers",
       "License :: OSI Approved :: MIT License",
       "Operating System :: OS Independent",
       "Programming Language :: Python :: 3",
       "Programming Language :: Python :: 3.7",
       "Programming Language :: Python :: 3.8",
       "Programming Language :: Python :: 3.9",
       "Programming Language :: Python :: 3.10",
       "Programming Language :: Python :: 3.11" >>

\* Variants of the requirement arguments.
Mut_python_requires == ">=3.8"

python_requires == ">=3.7"

Mut_install_requires == <<"pytest>=6.0">>

install_requires == <<>>

Mut_extras_require == [dev |-> <<"pytest>=6.0", "black">>, lint |-> <<"flake8">>]

extras_require == [dev |-> <<"pytest>=6.0", "black", "flake8">>]

\* Variant: a console script declared.
Mut_SetupKwargs(text, packages) ==
    [name |-> "rewroute",
     version |-> "0.1.0",
     author |-> "bw",
     author_email |-> "b7w@pkg.bio",
     description |-> "a lightweight proxy hosting thing",
     long_description |-> text,
     long_description_content_type |-> "text/markdown",
     url |-> "https://github.com/cabinfvr/rewroute",
     packages |-> packages,
     classifiers |-> classifiers,
     python_requires |-> python_requires,
     install_requires |-> install_requires,
     extras_require |-> extras_require,
     entry_points |-> [console_scripts |-> <<"rewroute=rewroute.cli:main">>]]

\* The keyword arguments of the call of setup(), in the order written.
SetupKwargs(text, packages) ==
    [name |-> "rewroute",
     version |-> "0.1.0",
     author |-> "bw",
     author_email |-> "b7w@pkg.bio",
     description |-> "a lightweight proxy hosting thing",
     long_description |-> text,
     long_description_content_type |-> "text/markdown",
     url |-> "https://github.com/cabinfvr/rewroute",
     packages |-> packages,
     classifiers |-> classifiers,
     python_requires |-> python_requires,
     install_requires |-> install_requires,
     extras_require |-> extras_require]

\* ------------------------------------------------------------------ state

VARIABLES
    fs,                 \* directory -> its README.md
    cwd,                \* the working directory of the process
    pc,                 \* where the script is
    fh,                 \* the handle of the with block: none, open, closed
    long_description,   \* the module global: <<>> unbound, <<text>> bound
    exc,                \* the exception in flight or raised to the invoker
    findPackagesCalls,  \* calls of find_packages() in this run
    packages,           \* what find_packages() returned
    setupCalls,         \* the keyword arguments of each call of setup()
    run,                \* which run of the manifest this is
    outcomes            \* how the earlier runs ended

vars == <<fs, cwd, pc, fh, long_description, exc, findPackagesCalls, packages,
          setupCalls, run, outcomes>>

TypeOK ==
    /\ fs \in [Dirs -> Files]
    /\ cwd \in Dirs
    /\ pc \in {"open", "read", "exit", "args", "setup", "done", "failed"}
    /\ fh \in {"none", "open", "closed"}
    /\ exc \in {"none", "FileNotFoundError", "PermissionError", "UnicodeDecodeError"}
    /\ findPackagesCalls \in 0..1
    /\ Len(setupCalls) \in 0..1
    /\ run \in 1..MaxRuns

\* A fresh interpreter about to execute line 3.
Init ==
    /\ fs \in [Dirs -> Files]
    /\ cwd \in Dirs
    /\ pc = "open"
    /\ fh = "none"
    /\ long_description = <<>>
    /\ exc = "none"
    /\ findPackagesCalls = 0
    /\ packages = <<>>
    /\ setupCalls = <<>>
    /\ run = 1
    /\ outcomes = <<>>

\* Variant: the name resolved beside the script (dirname(__file__)).
Mut_ResolveDir == ManifestDir

\* The directory the relative name "README.md" is resolved in.
ResolveDir == cwd

\* Variant: the error of the open caught (try ... except OSError) and the
\* description left empty.
Mut_Open ==
    /\ pc = "open"
    /\ LET r == OsOpen(fs[ResolveDir], OpenMode)
       IN  /\ fs' = [fs EXCEPT ![ResolveDir] = r.file]
           /\ IF r.err = "none"
              THEN /\ fh' = "open"
                   /\ pc' = "read"
                   /\ UNCHANGED long_description
              ELSE /\ fh' = "none"
                   /\ pc' = "args"
                   /\ long_description' = << <<>> >>
    /\ UNCHANGED <<cwd, exc, findPackagesCalls, packages, setupCalls, run, outcomes>>

\* Line 3: open("README.md", "r", encoding="utf-8"); an OSError leaves the
\* script at once.
Open ==
    /\ pc = "open"
    /\ LET r == OsOpen(fs[ResolveDir], OpenMode)
       IN  /\ fs' = [fs EXCEPT ![ResolveDir] = r.file]
           /\ exc' = r.err
           /\ IF r.err = "none"
              THEN fh' = "open" /\ pc' = "read"
              ELSE fh' = "none" /\ pc' = "failed"
    /\ UNCHANGED <<cwd, long_description, findPackagesCalls, packages,
                   setupCalls, run, outcomes>>

\* Line 4: long_description = fh.read(); a decoding error is in flight
\* when the with block is left.
Read ==
    /\ pc = "read"
    /\ LET r == FhRead(fs[ResolveDir].bytes)
       IN  IF r.ok
           THEN long_description' = <<r.text>> /\ exc' = "none"
           ELSE UNCHANGED long_description /\ exc' = "UnicodeDecodeError"
    /\ pc' = "exit"
    /\ UNCHANGED <<fs, cwd, fh, findPackagesCalls, packages, setupCalls, run, outcomes>>

\* Variant: a bare open() in place of the with statement, the handle never
\* closed.
Mut_WithExitLeak ==
    /\ pc = "exit"
    /\ pc' = IF exc = "none" THEN "args" ELSE "failed"
    /\ UNCHANGED <<fs, cwd, fh, long_description, exc, findPackagesCalls,
                   packages, setupCalls, run, outcomes>>

\* Variant: the exception of the read suppressed on leaving the block, the
\* description left empty.
Mut_WithExitSwallow ==
    /\ pc = "exit"
    /\ fh' = "closed"
    /\ pc' = "args"
    /\ long_description' = IF exc = "none" THEN long_description ELSE << <<>> >>
    /\ UNCHANGED <<fs, cwd, exc, findPackagesCalls, packages, setupCalls, run, outcomes>>

\* Lines 3-4, the end of the with block: fh.__exit__ closes the handle and
\* does not suppress the exception.
WithExit ==
    /\ pc = "exit"
    /\ fh' = "closed"
    /\ pc' = IF exc = "none" THEN "args" ELSE "failed"
    /\ UNCHANGED <<fs, cwd, long_description, exc, findPackagesCalls, packages,
                   setupCalls, run, outcomes>>

\* Line 15: packages=find_packages(), evaluated with the other arguments
\* before setup() is entered; it searches the working directory.
FindPackages ==
    /\ pc = "args"
    /\ findPackagesCalls' = findPackagesCalls + 1
    /\ packages' = PackagesIn(cwd)
    /\ pc' = "setup"
    /\ UNCHANGED <<fs, cwd, fh, long_description, exc, setupCalls, run, outcomes>>

\* Lines 6-38: the call of setup().
Setup ==
    /\ pc = "setup"
    /\ setupCalls' = Append(setupCalls, SetupKwargs(long_description[1], packages))
    /\ pc' = "done"
    /\ UNCHANGED <<fs, cwd, fh, long_description, exc, findPackagesCalls,
                   packages, run, outcomes>>

\* The invoker runs the manifest again, in a new interpreter, from the same
\* working directory over the same file system.
Rerun ==
    /\ pc \in {"done", "failed"}
    /\ run < MaxRuns
    /\ outcomes' = Append(outcomes, [pc |-> pc, exc |-> exc, calls |-> setupCalls])
    /\ run' = run + 1
    /\ pc' = "open"
    /\ fh' = "none"
    /\ long_description' = <<>>
    /\ exc' = "none"
    /\ findPackagesCalls' = 0
    /\ packages' = <<>>
    /\ setupCalls' = <<>>
    /\ UNCHANGED <<fs, cwd>>

Next ==
    \/ Open
    \/ Read
    \/ WithExit
    \/ FindPackages
    \/ Setup
    \/ Rerun

Spec == Init /\ [][Next]_vars

\* ------------------------------------------------- vocabulary of the claims

Terminal == pc \in {"done", "failed"}

\* The operating system lets the process open f for reading.
Readable(f) == f.exists /\ f.readable

\* f's bytes are UTF-8.
WellEncoded(f) == Utf8Decode(f.bytes).ok

Range(s) == {s[i] : i \in 1..Len(s)}

\* The UTF-8 encoding of a text of code points below U+0800.
RECURSIVE Utf8Encode(_)
Utf8Encode(t) ==
    IF t = <<>> THEN <<>>
    ELSE IF t[1] < 128 THEN <<t[1]>> \o Utf8Encode(Tail(t))
    ELSE <<192 + (t[1] \div 64), 128 + (t[1] % 64)>> \o Utf8Encode(Tail(t))

\* The bytes of a file with every line ending written as LF.
LineEndingsAsLF(bs) ==
    LET keep == {i \in 1..Len(bs) : ~(bs[i] = LF /\ i > 1 /\ bs[i - 1] = CR)}
        RECURSIVE Pick(_)
        Pick(i) ==
            IF i > Len(bs) THEN <<>>
            ELSE IF i \in keep
                 THEN <<IF bs[i] = CR THEN LF ELSE bs[i]>> \o Pick(i + 1)
            ELSE Pick(i + 1)
    IN  Pick(1)

\* Release numbers of one or two components, and how they are written.
Releases == UNION {[1..n -> 0..MaxPart] : n \in 1..2}

Format(v) ==
    IF Len(v) = 1 THEN ToString(v[1])
    ELSE ToString(v[1]) \o "." \o ToString(v[2])

\* PEP 440 order on releases: missing components count as 0.
Minor(v) == IF Len(v) >= 2 THEN v[2] ELSE 0

AtLeast(v, w) == v[1] > w[1] \/ (v[1] = w[1] /\ Minor(v) >= Minor(w))

\* The release r such that the specifier s reads ">=r", if there is one.
LowerBounds(s) == {r \in Releases : s = ">=" \o Format(r)}

\* The full (major.minor) Python versions a list of classifiers names.
PythonClassifier(v) == "Programming Language :: Python :: " \o Format(v)

VersionsNamed(cs) ==
    {v \in Releases : Len(v) = 2 /\ PythonClassifier(v) \in Range(cs)}

\* The project a requirement string names.
Projects == {"pytest", "black", "flake8"}

NamesProject(req, p) ==
    req = p \/ \E r \in Releases : req = p \o ">=" \o Format(r)

\* Keyword arguments of setup() that install something to run or to load.
SurfaceKeys ==
    {"entry_points", "scripts", "py_modules", "ext_modules", "data_files",
     "package_data", "include_package_data", "cmdclass"}

\* Keyword arguments of setup() that impose requirements on an installer.
RequirementKeys ==
    {"python_requires", "install_requires", "setup_requires", "requires",
     "tests_require"}

\* ------------------------------------------------------------------ claims

\* C1, as claimed: whenever a readable README.md lies alongside the
\* manifest, the run succeeds: setup() is called exactly once, with name
\* rewroute, version 0.1.0 and Python requirement >=3.7.
C1_AsClaimed ==
    (Terminal /\ Readable(fs[ManifestDir])) =>
        /\ pc = "done"
        /\ Len(setupCalls) = 1
        /\ setupCalls[1].name = "rewroute"
        /\ setupCalls[1].version = "0.1.0"
        /\ setupCalls[1].python_requires = ">=3.7"

\* C1, amended: whenever a readable README.md whose bytes are UTF-8 lies in
\* the working directory, the run never fails, no step of it is blocked,
\* and it ends with setup() called exactly once, with name rewroute,
\* version 0.1.0 and Python requirement >=3.7, whatever the text is.
C1_SucceedsFromWorkingDir ==
    (Readable(fs[cwd]) /\ WellEncoded(fs[cwd])) =>
        /\ pc # "failed"
        /\ Len(setupCalls) <= 1
        /\ pc # "done" => ENABLED (Open \/ Read \/ WithExit \/ FindPackages \/ Setup)
        /\ pc = "done" =>
            /\ Len(setupCalls) = 1
            /\ setupCalls[1].name = "rewroute"
            /\ setupCalls[1].version = "0.1.0"
            /\ setupCalls[1].python_requires = ">=3.7"

\* A run from another directory than the manifest's succeeded on the
\* README.md found there, none lying alongside the manifest.
C1_Witness ==
    /\ pc = "done"
    /\ cwd # ManifestDir
    /\ ~fs[ManifestDir].exists
    /\ Len(setupCalls) = 1
    /\ Len(setupCalls[1].long_description) = MaxLen

\* C2: when README.md is missing or may not be read, the run goes no
\* further than the open, ends failed with the operating system's own
\* error (FileNotFoundError, PermissionError) raised to the invoker, and
\* neither binds long_description nor calls setup().
C2_MissingReadmeFails ==
    ~Readable(fs[cwd]) =>
        /\ pc \in {"open", "failed"}
        /\ long_description = <<>>
        /\ setupCalls = <<>>
        /\ findPackagesCalls = 0
        /\ pc = "failed" =>
            exc = IF fs[cwd].exists THEN "PermissionError" ELSE "FileNotFoundError"

\* A run failed on a README.md that is there and may not be read, while a
\* readable one lies in the other directory.
C2_Witness ==
    /\ pc = "failed"
    /\ exc = "PermissionError"
    /\ fs[cwd].exists
    /\ \E d \in Dirs : Readable(fs[d])

\* C3: in every successful run install_requires is empty and the only
\* requirement passed to setup() is python_requires, which is >=3.7.
C3_NoRuntimeDependencies ==
    pc = "done" =>
        LET a == setupCalls[1]
        IN  /\ a.install_requires = <<>>
            /\ a.python_requires = ">=3.7"
            /\ (DOMAIN a) \cap RequirementKeys = {"python_requires", "install_requires"}

C3_Witness ==
    /\ pc = "done"
    /\ run = 1
    /\ setupCalls[1].install_requires = <<>>
    /\ fs[cwd].bytes = <<>>

\* C4: the extras are the single extra dev, whose requirements are exactly
\* pytest>=6.0, black and flake8, and install_requires names none of the
\* three projects.
C4_DevExtraOnly ==
    pc = "done" =>
        LET a == setupCalls[1]
        IN  /\ DOMAIN a.extras_require = {"dev"}
            /\ Len(a.extras_require.dev) = 3
            /\ Range(a.extras_require.dev) = {"pytest>=6.0", "black", "flake8"}
            /\ \A p \in Projects :
                   \E i \in 1..3 : NamesProject(a.extras_require.dev[i], p)
            /\ \A i \in 1..Len(a.install_requires) :
                   \A p \in Projects : ~NamesProject(a.install_requires[i], p)

C4_Witness ==
    /\ pc = "done"
    /\ run = MaxRuns
    /\ "dev" \in DOMAIN setupCalls[1].extras_require
    /\ cwd = ManifestDir

C6_NoRuntimeSurface ==
    pc = "done" =>
        LET a == setupCalls[1]
        IN  /\ (DOMAIN a) \cap SurfaceKeys = {}
            /\ DOMAIN a =
                 {"name", "version", "author", "author_email", "description",
                  "long_description", "long_description_content_type", "url",
                  "packages", "classifiers", "python_requires",
                  "install_requires", "extras_require"}

C6_Witness ==
    /\ pc = "done"
    /\ setupCalls[1].packages = <<"rewroute">>
    /\ "entry_points" \notin DOMAIN setupCalls[1]

\* C7: find_packages() and setup() are called only after README.md was
\* opened, read to the end and left, with no exception raised; a failed
\* run has called neither.
C7_ReadPrecedesSetup ==
    /\ (findPackagesCalls > 0 \/ setupCalls # <<>>) =>
        /\ exc = "none"
        /\ fh = "closed"
        /\ long_description # <<>>
    /\ setupCalls # <<>> => findPackagesCalls = 1
    /\ pc = "failed" => (setupCalls = <<>> /\ findPackagesCalls = 0)
    /\ exc # "none" => pc \in {"exit", "failed"}

\* The read raised, and the run failed with nothing called.
C7_Witness ==
    /\ pc = "failed"
    /\ exc = "UnicodeDecodeError"
    /\ setupCalls = <<>>
    /\ findPackagesCalls = 0

\* C8, as claimed: the run succeeds exactly when a readable README.md
\* exists in the working directory.
C8_AsClaimed ==
    Terminal => (pc = "done" <=> Readable(fs[cwd]))

\* C8, amended: no step changes any README.md, and the run succeeds exactly
\* when the working directory holds a readable README.md whose bytes are
\* UTF-8, whatever lies in the other directories.
C8_WorkingDirReadOnly ==
    [][/\ fs' = fs
       /\ pc' = "done" => (Readable(fs[cwd]) /\ WellEncoded(fs[cwd]))
       /\ pc' = "failed" => ~(Readable(fs[cwd]) /\ WellEncoded(fs[cwd]))]_vars

\* A run failed in a working directory without README.md although the
\* manifest's directory holds a readable one.
C8_Witness ==
    /\ pc = "failed"
    /\ cwd # ManifestDir
    /\ ~fs[cwd].exists
    /\ Readable(fs[ManifestDir])
    /\ WellEncoded(fs[ManifestDir])

\* C9: the handle is open only between the open and the end of the with
\* block: it is closed before find_packages() and setup() are called and
\* is not open when the run has ended, in success or in error.
C9_HandleReleased ==
    /\ fh = "open" => pc \in {"read", "exit"}
    /\ pc \in {"args", "setup", "done"} => fh = "closed"
    /\ pc = "failed" => fh = (IF exc = "UnicodeDecodeError" THEN "closed" ELSE "none")
    /\ pc \in {"read", "exit"} => fh = "open"

\* The read raised and the run ended with the handle closed.
C9_Witness ==
    /\ pc = "failed"
    /\ fh = "closed"
    /\ exc = "UnicodeDecodeError"
    /\ run = 1

\* C10: the full Python versions the classifiers name are 3.7 to 3.11,
\* each of them satisfies python_requires, and the lowest of them is the
\* lower bound python_requires states.
C10_ClassifiersMeetRequirement ==
    pc = "done" =>
        LET a     == setupCalls[1]
            named == VersionsNamed(a.classifiers)
            low   == LowerBounds(a.python_requires)
        IN  /\ named = {<<3, 7>>, <<3, 8>>, <<3, 9>>, <<3, 10>>, <<3, 11>>}
            /\ Cardinality(low) = 1
            /\ \A v \in named : \A r \in low : AtLeast(v, r)
            /\ \E v \in named :
                   /\ v \in low
                   /\ \A w \in named : AtLeast(w, v)

C10_Witness ==
    /\ pc = "done"
    /\ <<3, 11>> \in VersionsNamed(setupCalls[1].classifiers)
    /\ <<3, 7>> \in LowerBounds(setupCalls[1].python_requires)

====
